---------------------------- MODULE Spec2Model ----------------------------
(***************************************************************************)
(* Model of src/perceptron.go: a perceptron with float32 weights that      *)
(* learns to tell whether an integer point lies above the line y = a*x+b.  *)
(*                                                                         *)
(* float32 values are modelled bit-exactly as m * 2^e (IEEE 754 binary32,  *)
(* round to nearest, ties to even), with every operation rounded on its    *)
(* own, as the gc compiler does on amd64.  Infinities and NaN are not      *)
(* modelled: every value reached is far below the largest float32.         *)
(***************************************************************************)
EXTENDS Integers, Sequences, FiniteSets, TLC

(***************************************************************************)
(* float32 arithmetic                                                      *)
(***************************************************************************)

\* Number of significand bits of a float32 (the type of weights and bias).
Float32Digits == 24

Abs(n) == IF n < 0 THEN 0 - n ELSE n

Sign(n) == IF n < 0 THEN 0 - 1 ELSE 1

Max(x, y) == IF x >= y THEN x ELSE y

Min(x, y) == IF x <= y THEN x ELSE y

RECURSIVE Pow2Rec(_)
Pow2Rec(n) == IF n = 0 THEN 1 ELSE 2 * Pow2Rec(n - 1)

Pow2Table == [n \in 0 .. 30 |-> Pow2Rec(n)]

\* 2^n, for 0 <= n <= 30.
Pow2(n) == Pow2Table[n]

RECURSIVE BitLenRec(_)
BitLenRec(n) == IF n = 0 THEN 0 ELSE 1 + BitLenRec(n \div 2)

BitLenTable == [n \in 0 .. 255 |-> BitLenRec(n)]

\* Number of bits of the natural number n (0 for 0).
RECURSIVE BitLen(_)
BitLen(n) == IF n < 256 THEN BitLenTable[n] ELSE 8 + BitLen(n \div 256)

\* The float32 with value m * 2^e, in canonical form: m odd, or m = e = 0.
RECURSIVE Canon(_, _)
Canon(m, e) ==
    IF m = 0 THEN [m |-> 0, e |-> 0]
    ELSE IF m % 256 = 0 THEN Canon(m \div 256, e + 8)
    ELSE IF m % 2 = 0 THEN Canon(m \div 2, e + 1)
    ELSE [m |-> m, e |-> e]

\* The float32 nearest to M * 2^E, ties to even; the smallest float32
\* exponent is -149 (subnormals keep fewer bits).
RoundF(M, E) ==
    LET n == Abs(M)
        s == Max(Max(BitLen(n) - Float32Digits, (0 - 149) - E), 0)
    IN  IF s = 0 THEN Canon(M, E)
        ELSE IF s > 30 THEN Canon(0, 0)
        ELSE LET q    == n \div Pow2(s)
                 r    == n % Pow2(s)
                 half == Pow2(s - 1)
                 up   == r > half \/ (r = half /\ q % 2 = 1)
             IN  Canon(Sign(M) * (IF up THEN q + 1 ELSE q), E + s)

\* float32(i) for an int32 i with |i| < 2^24: exact.
FromInt(i) == Canon(i, 0)

\* -x in float32.
FMinus(x) == [m |-> 0 - x.m, e |-> x.e]

\* v in units of 2^(ew-1), with the bits below that unit folded into a
\* sticky last bit.
Aligned(v, ew) ==
    IF v.e >= ew THEN 2 * v.m * Pow2(v.e - ew)
    ELSE LET d == ew - v.e
             q == IF d > 30 THEN 0 ELSE Abs(v.m) \div Pow2(d)
             r == IF d > 30 THEN 1 ELSE Abs(v.m) % Pow2(d)
         IN  Sign(v.m) * (2 * q + (IF r = 0 THEN 0 ELSE 1))

\* x + y in float32.
FAdd(x, y) ==
    IF x.m = 0 THEN y
    ELSE IF y.m = 0 THEN x
    ELSE LET top == Max(BitLen(Abs(x.m)) + x.e, BitLen(Abs(y.m)) + y.e)
             ew  == top - 28
             lo  == Min(x.e, y.e)
         IN  IF lo >= ew
             THEN RoundF(x.m * Pow2(x.e - lo) + y.m * Pow2(y.e - lo), lo)
             ELSE RoundF(Aligned(x, ew) + Aligned(y, ew), ew - 1)

\* x * y in float32.  A product of significands below 2^31 is rounded
\* directly; a wider one (the smaller significand below 2^16) is summed
\* from the two halves of the larger significand and rounded once.
FMul(x, y) ==
    LET big   == IF Abs(x.m) >= Abs(y.m) THEN x ELSE y
        small == IF Abs(x.m) >= Abs(y.m) THEN y ELSE x
        k     == Abs(small.m)
        sg    == Sign(x.m) * Sign(y.m)
        ex    == x.e + y.e
    IN  IF BitLen(Abs(x.m)) + BitLen(Abs(y.m)) <= 31
        THEN RoundF(x.m * y.m, ex)
        ELSE FAdd(Canon(sg * k * (Abs(big.m) \div 4096), ex + 12),
                  Canon(sg * k * (Abs(big.m) % 4096), ex))

\* x < 0 in float32.
FNeg(x) == x.m < 0

\* x < y in float32.
FLess(x, y) == FNeg(FAdd(x, FMinus(y)))

(***************************************************************************)
(* Bounds of the model and the values its inputs are drawn from            *)
(***************************************************************************)

\* Training iterations of a run (main passes iterations = 1000).
MaxIters == 2

\* Verification trials of a run (verify loops 100 times).
MaxTrials == 2

\* Calls made on one perceptron in the specification of its methods.
MaxCalls == 1

\* Longest input vector passed to Process and Adjust.
MaxLen == 3

\* Results of rand.Float32() used: 0.25 and float32(0.7).
Float32Picks ==
    {[m |-> 1, e |-> 0 - 2], [m |-> 11744051, e |-> 0 - 24]}

\* Line parameters used, among those main can draw.
APicks == {0 - 6, 4}

BPicks == {0 - 51, 49}

\* Point coordinates used in training and verification, among those that
\* can be drawn.
CoordPicks == {0 - 101, 1, 99}

\* Elements of the input vectors passed to Process and Adjust.
InputPicks == {0 - 1, 0, 1}

\* Learning rates passed to Adjust: float32(0.1) and 1.
RatePicks == {[m |-> 13421773, e |-> 0 - 27], [m |-> 1, e |-> 0]}

\* The number of inputs main constructs the perceptron with.
NumInputs == 2

\* The learning rate of main: float32(0.1).
learningRate == [m |-> 13421773, e |-> 0 - 27]

(***************************************************************************)
(* The program                                                             *)
(***************************************************************************)

VARIABLES
    pc,             \* position in main, train and verify
    a, b,           \* the package-level line parameters
    weights, bias,  \* the Perceptron p
    i,              \* loop counter of train and of verify
    point,          \* the point of the current iteration
    actual, expected, delta,    \* locals of train
    result, correctAnswers,     \* locals of verify
    canvas,         \* calls received by the draw.Canvas
    successRate,    \* the value main prints
    call,           \* last call of a method: arguments and outcome
    ncalls          \* number of method calls made

vars == <<pc, a, b, weights, bias, i, point, actual, expected, delta,
          result, correctAnswers, canvas, successRate, call, ncalls>>

\* rand.Int31n(n): an integer in [0, n).
Int31n(n) == 0 .. (n - 1)

\* heaviside with the test f <= 0.
heavisideStrict(fl) == IF fl.m <= 0 THEN 0 ELSE 1

\* heaviside: 0 for f < 0, else 1.
heaviside(fl) == IF FNeg(fl) THEN 0 ELSE 1

\* rand.Float32()*2 - 1
RandomWeight(r) == FAdd(FMul(r, FromInt(2)), FromInt(0 - 1))

\* NewPerceptron(n), with the n+1 results of rand.Float32() in draws.
NewPerceptron(n, draws) ==
    [weights |-> [k \in 1 .. n |-> RandomWeight(draws[k])],
     bias    |-> RandomWeight(draws[n + 1])]

\* The range loop of Process from index k on: an index beyond the weights
\* panics (index out of range).
RECURSIVE ProcessLoop(_, _, _, _)
ProcessLoop(w, inputs, k, sum) ==
    IF k > Len(inputs) THEN [panic |-> FALSE, sum |-> sum]
    ELSE IF k > Len(w) THEN [panic |-> TRUE, sum |-> sum]
    ELSE ProcessLoop(w, inputs, k + 1, FAdd(sum, FMul(FromInt(inputs[k]), w[k])))

\* Process accumulating in p.bias instead of the local sum.
ProcessKeepsSum(w, bs, inputs) ==
    LET l == ProcessLoop(w, inputs, 1, bs)
    IN  [panic   |-> l.panic,
         ret     |-> IF l.panic THEN 0 ELSE heaviside(l.sum),
         weights |-> w,
         bias    |-> l.sum]

\* p.Process(inputs) on the perceptron (w, bs): the outcome, the value
\* returned and the perceptron it leaves.
Process(w, bs, inputs) ==
    LET l == ProcessLoop(w, inputs, 1, bs)
    IN  [panic   |-> l.panic,
         ret     |-> IF l.panic THEN 0 ELSE heaviside(l.sum),
         weights |-> w,
         bias    |-> bs]

\* The loop of Adjust without the learning rate.
RECURSIVE AdjustLoopNoRate(_, _, _, _, _)
AdjustLoopNoRate(w, inputs, d, rate, k) ==
    IF k > Len(inputs) THEN [panic |-> FALSE, weights |-> w]
    ELSE IF k > Len(w) THEN [panic |-> TRUE, weights |-> w]
    ELSE AdjustLoopNoRate(
           [w EXCEPT ![k] = FAdd(@, FMul(FromInt(inputs[k]), FromInt(d)))],
           inputs, d, rate, k + 1)

\* The range loop of Adjust from index k on; the weights updated before a
\* panic stay updated.
RECURSIVE AdjustLoop(_, _, _, _, _)
AdjustLoop(w, inputs, d, rate, k) ==
    IF k > Len(inputs) THEN [panic |-> FALSE, weights |-> w]
    ELSE IF k > Len(w) THEN [panic |-> TRUE, weights |-> w]
    ELSE AdjustLoop(
           [w EXCEPT ![k] = FAdd(@, FMul(FMul(FromInt(inputs[k]), FromInt(d)), rate))],
           inputs, d, rate, k + 1)

\* The bias update without delta.
AdjustBiasNoDelta(bs, d, rate) == FAdd(bs, rate)

\* The last statement of Adjust: p.bias += float32(delta) * learningRate
AdjustBias(bs, d, rate) == FAdd(bs, FMul(FromInt(d), rate))

\* Adjust with the sign of delta reversed.
AdjustReversed(w, bs, inputs, d, rate) ==
    LET l == AdjustLoop(w, inputs, 0 - d, rate, 1)
    IN  [panic   |-> l.panic,
         weights |-> l.weights,
         bias    |-> IF l.panic THEN bs ELSE AdjustBias(bs, 0 - d, rate)]

\* p.Adjust(inputs, delta, learningRate) on the perceptron (w, bs).
Adjust(w, bs, inputs, d, rate) ==
    LET l == AdjustLoop(w, inputs, d, rate, 1)
    IN  [panic   |-> l.panic,
         weights |-> l.weights,
         bias    |-> IF l.panic THEN bs ELSE AdjustBias(bs, d, rate)]

\* f(x) = a*x + b, for the line parameters (la, lb).  With the values main
\* and the loops draw, |a*x + b| <= 657: int32 never wraps.
f(la, lb, x) == la * x + lb

\* isAboveLine with the test y >= f(x).
isAboveOrOnLine(la, lb, pt) == IF pt[2] >= f(la, lb, pt[1]) THEN 1 ELSE 0

\* isAboveLine(point, f)
isAboveLine(la, lb, pt) == IF pt[2] > f(la, lb, pt[1]) THEN 1 ELSE 0

\* rand.Int31n(201) - 101
SampleCoords == {r - 101 : r \in Int31n(201)}

\* rand.Int31n(11) - 6 and rand.Int31n(101) - 51
LineA == {r - 6 : r \in Int31n(11)}

LineB == {r - 51 : r \in Int31n(101)}

\* Every point the loops of train and verify can draw.
SamplePoints == SampleCoords \X SampleCoords

\* The points train and verify draw in the model.
PickedPoints == (SampleCoords \cap CoordPicks) \X (SampleCoords \cap CoordPicks)

\* The lines and rand.Float32() results main draws in the model.
PickedLines == (LineA \cap APicks) \X (LineB \cap BPicks)

PickedDraws == [1 .. NumInputs + 1 -> Float32Picks]

\* Counting the answers "above" instead of the correct ones.
CountAbove(res, exp, n) == IF res = 1 THEN n + 1 ELSE n

\* if result == isAboveLine(point, f) { correctAnswers += 1 }
CountCorrect(res, exp, n) == IF res = exp THEN n + 1 ELSE n

NoCall == [op |-> "none", inputs |-> <<>>, delta |-> 0, rate |-> FromInt(0),
           outcome |-> "none", ret |-> 0]

EmptyCanvas == [points |-> 0, lines |-> <<>>, saves |-> 0]

\* Start of main: no line, no perceptron, nothing drawn.
Start(p) ==
    /\ pc = p
    /\ a = 0 /\ b = 0
    /\ weights = <<>> /\ bias = FromInt(0)
    /\ i = 0 /\ point = <<>>
    /\ actual = 0 /\ expected = 0 /\ delta = 0
    /\ result = 0 /\ correctAnswers = 0
    /\ canvas = EmptyCanvas
    /\ successRate = 0 - 1
    /\ call = NoCall /\ ncalls = 0

Init == Start("main")

\* main, lines 179-184: draw the line and construct the perceptron.
Setup ==
    /\ pc = "main"
    /\ \E line \in PickedLines, draws \in PickedDraws :
          LET p == NewPerceptron(NumInputs, draws)
          IN  /\ a' = line[1] /\ b' = line[2]
              /\ weights' = p.weights /\ bias' = p.bias
    /\ pc' = "train" /\ i' = 0
    /\ UNCHANGED <<point, actual, expected, delta, result, correctAnswers,
                   canvas, successRate, call, ncalls>>

\* One iteration of the loop of train.
TrainIter ==
    /\ pc = "train" /\ i < MaxIters
    /\ \E pt \in PickedPoints :
          LET pr  == Process(weights, bias, pt)
              exp == isAboveLine(a, b, pt)
              adj == Adjust(pr.weights, pr.bias, pt, exp - pr.ret, learningRate)
          IN  /\ point' = pt /\ actual' = pr.ret /\ expected' = exp
              /\ delta' = exp - pr.ret
              /\ weights' = adj.weights /\ bias' = adj.bias
    /\ i' = i + 1
    /\ UNCHANGED <<pc, a, b, result, correctAnswers, canvas, successRate, call, ncalls>>

\* train returns and its locals are gone; verify starts with a new canvas
\* and no correct answer.
VerifyStart ==
    /\ pc = "train" /\ i = MaxIters
    /\ pc' = "verify" /\ i' = 0
    /\ correctAnswers' = 0 /\ canvas' = EmptyCanvas
    /\ point' = <<>> /\ actual' = 0 /\ expected' = 0 /\ delta' = 0
    /\ UNCHANGED <<a, b, weights, bias, result, successRate, call, ncalls>>

\* One iteration of the loop of verify, c.DrawPoint included.
VerifyTrial ==
    /\ pc = "verify" /\ i < MaxTrials
    /\ \E pt \in PickedPoints :
          LET pr == Process(weights, bias, pt)
          IN  /\ point' = pt /\ result' = pr.ret
              /\ weights' = pr.weights /\ bias' = pr.bias
              /\ correctAnswers' =
                   CountCorrect(pr.ret, isAboveLine(a, b, pt), correctAnswers)
              /\ canvas' = [canvas EXCEPT !.points = @ + 1]
    /\ i' = i + 1
    /\ UNCHANGED <<pc, a, b, actual, expected, delta, successRate, call, ncalls>>

\* c.DrawLinearFunction(a, b) inside the loop of verify.
DrawLineInLoop ==
    /\ pc = "verify" /\ i < MaxTrials
    /\ canvas' = [canvas EXCEPT !.lines = Append(@, <<a, b>>)]
    /\ UNCHANGED <<pc, a, b, weights, bias, i, point, actual, expected, delta,
                   result, correctAnswers, successRate, call, ncalls>>

\* c.DrawLinearFunction(a, b), after the loop of verify and its locals.
DrawLine ==
    /\ pc = "verify" /\ i = MaxTrials
    /\ canvas' = [canvas EXCEPT !.lines = Append(@, <<a, b>>)]
    /\ pc' = "save" /\ point' = <<>> /\ result' = 0
    /\ UNCHANGED <<a, b, weights, bias, i, actual, expected, delta,
                   correctAnswers, successRate, call, ncalls>>

\* c.Save()
Save ==
    /\ pc = "save"
    /\ canvas' = [canvas EXCEPT !.saves = @ + 1]
    /\ pc' = "return"
    /\ UNCHANGED <<a, b, weights, bias, i, point, actual, expected, delta,
                   result, correctAnswers, successRate, call, ncalls>>

\* verify returns correctAnswers; main prints it.
Report ==
    /\ pc = "return"
    /\ successRate' = correctAnswers
    /\ pc' = "done"
    /\ UNCHANGED <<a, b, weights, bias, i, point, actual, expected, delta,
                   result, correctAnswers, canvas, call, ncalls>>

Next == Setup \/ TrainIter \/ VerifyStart \/ VerifyTrial \/ DrawLine \/ Save \/ Report

\* A run of main.
Spec == Init /\ [][Next]_vars

(***************************************************************************)
(* The methods of Perceptron, called with any input vector                 *)
(***************************************************************************)

\* Input vectors of length 0 .. MaxLen.
InputVectors == UNION {[1 .. k -> InputPicks] : k \in 0 .. MaxLen}

\* A perceptron as NewPerceptron leaves it.
InitMethods ==
    /\ pc = "methods"
    /\ a = 0 /\ b = 0
    /\ \E draws \in PickedDraws :
          LET p == NewPerceptron(NumInputs, draws)
          IN  weights = p.weights /\ bias = p.bias
    /\ i = 0 /\ point = <<>>
    /\ actual = 0 /\ expected = 0 /\ delta = 0
    /\ result = 0 /\ correctAnswers = 0
    /\ canvas = EmptyCanvas
    /\ successRate = 0 - 1
    /\ call = NoCall /\ ncalls = 0

\* A call p.Process(inputs); a panic ends the program.
CallProcess ==
    /\ pc = "methods" /\ ncalls < MaxCalls
    /\ \E inputs \in InputVectors :
          LET r == Process(weights, bias, inputs)
          IN  /\ call' = [op |-> "Process", inputs |-> inputs, delta |-> 0,
                          rate |-> FromInt(0),
                          outcome |-> IF r.panic THEN "index out of range" ELSE "return",
                          ret |-> r.ret]
              /\ weights' = r.weights /\ bias' = r.bias
              /\ pc' = IF r.panic THEN "panicked" ELSE "methods"
    /\ ncalls' = ncalls + 1
    /\ UNCHANGED <<a, b, i, point, actual, expected, delta, result,
                   correctAnswers, canvas, successRate>>

\* A call p.Adjust(inputs, delta, learningRate); a panic ends the program.
CallAdjust ==
    /\ pc = "methods" /\ ncalls < MaxCalls
    /\ \E inputs \in InputVectors, d \in {0 - 1, 0, 1}, rate \in RatePicks :
          LET r == Adjust(weights, bias, inputs, d, rate)
          IN  /\ call' = [op |-> "Adjust", inputs |-> inputs, delta |-> d,
                          rate |-> rate,
                          outcome |-> IF r.panic THEN "index out of range" ELSE "return",
                          ret |-> 0]
              /\ weights' = r.weights /\ bias' = r.bias
              /\ pc' = IF r.panic THEN "panicked" ELSE "methods"
    /\ ncalls' = ncalls + 1
    /\ UNCHANGED <<a, b, i, point, actual, expected, delta, result,
                   correctAnswers, canvas, successRate>>

NextMethods == CallProcess \/ CallAdjust

\* Calls of Process and Adjust on a new perceptron.
SpecMethods == InitMethods /\ [][NextMethods]_vars

(***************************************************************************)
(* The point generator and the label, over every point it can draw         *)
(***************************************************************************)

\* Any gradient main can draw, with the offsets of the model.
InitSample ==
    /\ pc = "sample"
    /\ a \in LineA /\ b \in LineB \cap BPicks
    /\ weights = <<>> /\ bias = FromInt(0)
    /\ i = 0 /\ point = <<>>
    /\ actual = 0 /\ expected = 0 /\ delta = 0
    /\ result = 0 /\ correctAnswers = 0
    /\ canvas = EmptyCanvas
    /\ successRate = 0 - 1
    /\ call = NoCall /\ ncalls = 0

\* The point of one iteration and its label: lines 117-120 and 124.
SampleAndLabel ==
    /\ pc = "sample"
    /\ \E pt \in SamplePoints :
          /\ point' = pt
          /\ expected' = isAboveLine(a, b, pt)
    /\ pc' = "labelled"
    /\ UNCHANGED <<a, b, weights, bias, i, actual, delta, result,
                   correctAnswers, canvas, successRate, call, ncalls>>

NextSample == SampleAndLabel

SpecSample == InitSample /\ [][NextSample]_vars

(***************************************************************************)
(* Properties                                                              *)
(***************************************************************************)

\* bias + inputs[1]*w[1] + ... + inputs[k]*w[k], added from left to right
\* in float32.
RECURSIVE WeightedSum(_, _, _, _)
WeightedSum(w, bs, inputs, k) ==
    IF k = 0 THEN bs
    ELSE FAdd(WeightedSum(w, bs, inputs, k - 1), FMul(FromInt(inputs[k]), w[k]))

Matching(c) == Len(c.inputs) = Len(weights)

\* C1: for an input vector as long as the weights, Process returns 1 if
\* bias + sum of inputs[i]*weights[i] is >= 0 and 0 otherwise; never another
\* value, and 1 for a sum of exactly 0.
ProcessIsStepOfSum ==
    (call.op = "Process" /\ Matching(call)) =>
        /\ call.outcome = "return"
        /\ call.ret \in {0, 1}
        /\ call.ret = IF FLess(WeightedSum(weights, bias, call.inputs, Len(weights)),
                               FromInt(0))
                      THEN 0 ELSE 1

\* Process has returned 1 for inputs, not all 0, whose weighted sum is 0.
ProcessZeroSumReached ==
    /\ call.op = "Process" /\ Matching(call)
    /\ \E k \in 1 .. Len(call.inputs) : call.inputs[k] # 0
    /\ WeightedSum(weights, bias, call.inputs, Len(weights)) = FromInt(0)
    /\ call.ret = 1

\* C2: after Adjust(inputs, d, r) with an input vector as long as the
\* weights, each weight is the old weight + inputs[i]*d*r, the bias is the
\* old bias + d*r (float32 operations, as the code writes them), and the
\* number of weights is unchanged.
AdjustUpdateLaw ==
    [][(call'.op = "Adjust" /\ ncalls' = ncalls + 1 /\ Len(call'.inputs) = Len(weights)) =>
          /\ Len(weights') = Len(weights)
          /\ \A k \in 1 .. Len(weights) :
                weights'[k] =
                    FAdd(weights[k],
                         FMul(FMul(FromInt(call'.inputs[k]), FromInt(call'.delta)),
                              call'.rate))
          /\ bias' = FAdd(bias, FMul(FromInt(call'.delta), call'.rate))]_vars

\* Adjust with delta -1, rate float32(0.1) and no input 0 has returned.
AdjustNonZeroReached ==
    /\ call.op = "Adjust" /\ Matching(call)
    /\ call.delta = 0 - 1 /\ call.rate = learningRate
    /\ \A k \in 1 .. Len(call.inputs) : call.inputs[k] # 0
    /\ call.outcome = "return"

\* C3: Adjust with delta = 0 leaves every weight and the bias unchanged,
\* whatever the inputs and the learning rate.
AdjustZeroDeltaNoOp ==
    [][(call'.op = "Adjust" /\ ncalls' = ncalls + 1 /\ call'.delta = 0) =>
          (weights' = weights /\ bias' = bias)]_vars

\* Adjust with delta 0, rate 1 and no input 0 has returned.
AdjustZeroDeltaReached ==
    /\ call.op = "Adjust" /\ Matching(call)
    /\ call.delta = 0 /\ call.rate = FromInt(1)
    /\ \A k \in 1 .. Len(call.inputs) : call.inputs[k] # 0
    /\ call.outcome = "return"

\* C4: the label of a point (x, y) is 1 exactly when y > a*x + b, and 0
\* otherwise; a point on the line is labelled 0.
LabelIsStrictlyAbove ==
    pc = "labelled" =>
        expected = IF point[2] > a * point[1] + b THEN 1 ELSE 0

\* A point on the line has been labelled 0.
OnLineLabelledReached ==
    /\ pc = "labelled"
    /\ point[2] = a * point[1] + b
    /\ expected = 0

\* C5: Process or Adjust called with an input vector shorter or longer than
\* the weights fails with a dimension-mismatch error.
MismatchFailsFast ==
    (call.op \in {"Process", "Adjust"} /\ ~Matching(call)) =>
        call.outcome = "dimension mismatch"

\* C6: the canvas receives one DrawPoint per trial, then exactly one
\* DrawLinearFunction(a, b), then exactly one Save: no DrawPoint after the
\* line, nothing after Save.
CanvasCallOrder ==
    /\ pc = "verify" => canvas.points = i
    /\ canvas.points <= MaxTrials
    /\ Len(canvas.lines) <= 1 /\ canvas.saves <= 1
    /\ Len(canvas.lines) = 1 => (canvas.points = MaxTrials /\ canvas.lines[1] = <<a, b>>)
    /\ canvas.saves = 1 => Len(canvas.lines) = 1
    /\ pc \in {"return", "done"} => canvas.saves = 1

\* verify has finished: every point, the line and the save are on the canvas.
CanvasSavedReached ==
    /\ pc = "done"
    /\ canvas.points = MaxTrials /\ Len(canvas.lines) = 1 /\ canvas.saves = 1

InVerify == pc \in {"verify", "save", "return", "done"}

\* C7: verify counts exactly the trials in which Process(point) equals
\* isAboveLine(point): the counter starts at 0, grows by one in such a trial
\* and stays in every other, is always between 0 and the number of trials
\* done, and is the value returned, between 0 and the number of trials.
VerifyCountsCorrect ==
    /\ [](InVerify => (correctAnswers >= 0 /\ correctAnswers <= i /\ i <= MaxTrials))
    /\ [](pc = "done" => (successRate = correctAnswers /\ i = MaxTrials))
    /\ [][(pc = "train" /\ pc' = "verify") => correctAnswers' = 0]_vars
    /\ [][(pc = "verify" /\ i' = i + 1) =>
            correctAnswers' = correctAnswers +
                (IF Process(weights, bias, point').ret = isAboveLine(a, b, point')
                 THEN 1 ELSE 0)]_vars
    /\ [][(InVerify /\ i' = i) => correctAnswers' = correctAnswers]_vars

\* verify has returned after a trial answered correctly and one answered
\* wrongly.
VerifyMixedReached ==
    pc = "done" /\ successRate > 0 /\ successRate < MaxTrials

\* C8: once training has finished, the weights and the bias never change:
\* no step of verify or after it changes them.
FrozenAfterTraining ==
    [][(InVerify \/ (pc = "train" /\ i = MaxIters)) =>
          (weights' = weights /\ bias' = bias)]_vars

\* The run has ended with weights that training has changed.
TrainedAndVerifiedReached ==
    /\ pc = "done" /\ canvas.points = MaxTrials
    /\ weights[1] \notin {RandomWeight(r) : r \in Float32Picks}

\* C9: each coordinate of a generated point is in -101 .. 100, and every
\* value of that range, 100 included, can be generated.
CoordsCoverRange ==
    pc = "labelled" =>
        /\ point[1] \in (0 - 101) .. 100 /\ point[2] \in (0 - 101) .. 100
        /\ \A v \in (0 - 101) .. 100 : v \in SampleCoords

TrainStep == pc = "train" /\ i' = i + 1

SumBefore == WeightedSum(weights, bias, point', NumInputs)

SumAfter == WeightedSum(weights', bias', point', NumInputs)

\* C10 as stated: in every training iteration delta is in {-1, 0, 1}; for a
\* misclassified point the weighted sum after Adjust equals the sum before
\* plus delta*rate*(x*x + y*y + 1), and is larger for the expected label 1,
\* smaller for 0; for a correctly classified point the perceptron is
\* unchanged.
DeltaRuleExactStep ==
    [][TrainStep =>
          /\ delta' = isAboveLine(a, b, point') - Process(weights, bias, point').ret
          /\ delta' \in {0 - 1, 0, 1}
          /\ delta' # 0 =>
                /\ SumAfter =
                     FAdd(SumBefore,
                          FMul(FMul(FromInt(delta'), learningRate),
                               FromInt(point'[1] * point'[1] + point'[2] * point'[2] + 1)))
                /\ expected' = 1 => FLess(SumBefore, SumAfter)
                /\ expected' = 0 => FLess(SumAfter, SumBefore)
          /\ delta' = 0 => (weights' = weights /\ bias' = bias)]_vars

\* C10, amended: in every training iteration delta is in {-1, 0, 1}; for a
\* misclassified point the weighted sum after Adjust is strictly larger than
\* the sum before for the expected label 1 and strictly smaller for 0; for a
\* correctly classified point the perceptron is unchanged.
DeltaRuleDirection ==
    [][TrainStep =>
          /\ delta' = isAboveLine(a, b, point') - Process(weights, bias, point').ret
          /\ delta' \in {0 - 1, 0, 1}
          /\ delta' # 0 =>
                /\ expected' = 1 => FLess(SumBefore, SumAfter)
                /\ expected' = 0 => FLess(SumAfter, SumBefore)
          /\ delta' = 0 => (weights' = weights /\ bias' = bias)]_vars

\* The second training iteration has corrected a point answered "above"
\* that lies below the line.
MisclassifiedCorrectedReached ==
    pc = "train" /\ i = 2 /\ delta = 0 - 1 /\ expected = 0 /\ actual = 1
=============================================================================
